---------------------------- MODULE Spec2Model ----------------------------
(***************************************************************************)
(* A model of gensec-template: the retrying page fetch of the scraper      *)
(* (scraper.py), the TTL cache wrapper LabCache over a diskcache store     *)
(* (cache.py), the serialisation of Lab and LabIndex (models.py) and the   *)
(* cache-first lookups of the command line (cli.py).                       *)
(*                                                                         *)
(* Time is a natural number of seconds.  The network and the disk are the  *)
(* environment: every GET draws its result from Responses, every store     *)
(* access may raise.                                                       *)
(***************************************************************************)
EXTENDS Integers, Sequences, FiniteSets, TLC

(***************************************************************************)
(* Bounds of the model.                                                    *)
(***************************************************************************)
MaxRetriesBound == 4      \* Scraper(max_retries=m) for m in 0..MaxRetriesBound
MaxRetryDelay == 2        \* Scraper(retry_delay=d) for d in 1..MaxRetryDelay
MaxTtl == 2               \* LabCache(ttl=s) for s in 1..MaxTtl
MaxTime == 3              \* the clock stops after MaxTime steps of a size
MaxCalls == 2             \* get_full_lab and scrape_full_lab are called MaxCalls times
MaxSections == 3          \* a generated lab has up to MaxSections sections

(***************************************************************************)
(* Program constants.                                                      *)
(***************************************************************************)
DEFAULT_BASE_URL == "https://codelabs.cs.pdx.edu/cs475/"
DEFAULT_MAX_RETRIES == 3
DEFAULT_RETRY_DELAY == 1

DEFAULT_TTL == 24 * 60 * 60
LAB_INDEX_KEY == "lab_index"
LAB_PREFIX == "lab:"

\* Python's None; a present Optional[int] or Optional[str] is Some(v)
None == [kind |-> "None"]
Some(v) == [kind |-> "Some", v |-> v]
\* an exception raised while a value is computed
KeyError == [kind |-> "KeyError"]

(***************************************************************************)
(* models.py: Question, Section, Lab, LabIndex and their dictionaries.     *)
(* An object is a record tagged with its class; a dictionary is a record   *)
(* of its keys.                                                            *)
(***************************************************************************)
\* data.get(key, default)
DictGet(data, key, default) == IF key \in DOMAIN data THEN data[key] ELSE default
SeqHas(s, x) == \E i \in 1..Len(s) : s[i] = x

Question(text, requires_screenshot, requires_odinid) ==
    [cls |-> "Question", text |-> text,
     requires_screenshot |-> requires_screenshot, requires_odinid |-> requires_odinid]
Section(number, title, questions, url_hash) ==
    [cls |-> "Section", number |-> number, title |-> title,
     questions |-> questions, url_hash |-> url_hash]
Lab(number, lab_id, title, lab_url, sections, duration_minutes, description) ==
    [cls |-> "Lab", number |-> number, lab_id |-> lab_id, title |-> title, url |-> lab_url,
     sections |-> sections, duration_minutes |-> duration_minutes, description |-> description]

\* datetime.now().isoformat(): never the empty string
IsoFormat(t) == "T" \o ToString(t)

\* LabIndex(labs, last_updated) with __post_init__, constructed at time t
LabIndexAlwaysStamps(labs, last_updated, t) ==
    [cls |-> "LabIndex", labs |-> labs, last_updated |-> IsoFormat(t)]
LabIndex(labs, last_updated, t) ==
    [cls |-> "LabIndex", labs |-> labs,
     last_updated |-> IF last_updated = "" THEN IsoFormat(t) ELSE last_updated]

Question_to_dict(q) ==
    [text |-> q.text, requires_screenshot |-> q.requires_screenshot,
     requires_odinid |-> q.requires_odinid]
Question_from_dict(data) ==
    IF "text" \notin DOMAIN data THEN KeyError
    ELSE Question(data["text"], DictGet(data, "requires_screenshot", FALSE),
                  DictGet(data, "requires_odinid", FALSE))

Section_to_dict(sec) ==
    [number |-> sec.number, title |-> sec.title,
     questions |-> [i \in 1..Len(sec.questions) |-> Question_to_dict(sec.questions[i])],
     url_hash |-> sec.url_hash]
Section_from_dict(data) ==
    IF ~({"number", "title"} \subseteq DOMAIN data) THEN KeyError
    ELSE LET raw == DictGet(data, "questions", <<>>)
             qs == [i \in 1..Len(raw) |-> Question_from_dict(raw[i])]
         IN  IF SeqHas(qs, KeyError) THEN KeyError
             ELSE Section(data["number"], data["title"], qs, DictGet(data, "url_hash", ""))

Lab_to_dict(lab) ==
    [number |-> lab.number, lab_id |-> lab.lab_id, title |-> lab.title, url |-> lab.url,
     sections |-> [i \in 1..Len(lab.sections) |-> Section_to_dict(lab.sections[i])],
     duration_minutes |-> lab.duration_minutes, description |-> lab.description]
Lab_from_dict(data) ==
    IF ~({"number", "lab_id", "title", "url"} \subseteq DOMAIN data) THEN KeyError
    ELSE LET raw == DictGet(data, "sections", <<>>)
             secs == [i \in 1..Len(raw) |-> Section_from_dict(raw[i])]
         IN  IF SeqHas(secs, KeyError) THEN KeyError
             ELSE Lab(data["number"], data["lab_id"], data["title"], data["url"], secs,
                      DictGet(data, "duration_minutes", None), DictGet(data, "description", None))

LabIndex_to_dict(index) ==
    [labs |-> [i \in 1..Len(index.labs) |-> Lab_to_dict(index.labs[i])],
     last_updated |-> index.last_updated]
\* from_dict at time t: cls(...) runs __post_init__
LabIndex_from_dict(data, t) ==
    LET raw == DictGet(data, "labs", <<>>)
        labs == [i \in 1..Len(raw) |-> Lab_from_dict(raw[i])]
    IN  IF SeqHas(labs, KeyError) THEN KeyError
        ELSE LabIndex(labs, DictGet(data, "last_updated", ""), t)

(***************************************************************************)
(* The labs of the course site the model works with.                       *)
(***************************************************************************)
LabUrl(lab_id) == DEFAULT_BASE_URL \o "labs/" \o lab_id \o "/"
SampleSection ==
    Section(1, "Setup", <<Question("Take a screenshot of the output", TRUE, FALSE)>>, "#0")
\* the labs as the index page lists them: no sections yet
IndexLab1 == Lab("01.1", "G01.1_Intro", "Intro", LabUrl("G01.1_Intro"), <<>>, Some(30), None)
IndexLab2 == Lab("01.2", "G01.2_Models", "Models", LabUrl("G01.2_Models"), <<>>, None, Some("APIs"))
\* a lab after scrape_lab_sections
WithSections(lab, sections) == [lab EXCEPT !.sections = sections]
SampleLabs == {IndexLab1, WithSections(IndexLab1, <<SampleSection>>), IndexLab2}
LabIds == {lab.lab_id : lab \in SampleLabs}
\* a lab whose directory is named by a number: its lab_id is the number of IndexLab2
IndexLab3 == Lab("01.3", "01.2", "Agents", LabUrl("01.2"), <<>>, None, None)
\* every lab_id a lab of the site can have
SampleLabLists == {<<IndexLab1, IndexLab2>>, <<IndexLab2>>}

(***************************************************************************)
(* The environment of fetch_page: what one client.get(url) can produce.    *)
(* A response carries a status code and a body; the two httpx exceptions   *)
(* a GET raises itself are a TimeoutException and any other RequestError.  *)
(***************************************************************************)
Pages == {"index1", "index2", "lab"}

HttpResponse(status, text) == [kind |-> "Response", status_code |-> status, text |-> text]
TimeoutException == [kind |-> "TimeoutException", status_code |-> 0, text |-> ""]
RequestError == [kind |-> "RequestError", status_code |-> 0, text |-> ""]

Responses ==
    {HttpResponse(200, p) : p \in Pages}
        \cup {HttpResponse(s, "") : s \in {404, 500, 503}}
        \cup {TimeoutException, RequestError}

\* response.raise_for_status(): HTTPStatusError for a 4xx or 5xx status
RaisesForStatus(r) == r.kind = "Response" /\ r.status_code >= 400

VARIABLES
    max_retries,    \* Scraper.max_retries
    retry_delay,    \* Scraper.retry_delay
    pc,             \* where the running fetch_page call is: idle, loop, returned, raised
    url,            \* the url of the call
    attempt,        \* the loop variable of fetch_page
    last_error,     \* fetch_page's last_error
    requests,       \* the results of the GETs this call has issued, in order
    sleeps,         \* the asyncio.sleep calls of this call: [attempt, cause, delay]
    outcome,        \* what the call returned or raised
    now,            \* time.time() and datetime.now(), in seconds
    ttl,            \* LabCache.ttl
    rows,           \* the rows of the diskcache store, in rowid order: [key, value, expire_time]
    last_op,        \* the last LabCache call: [op, arg, result, raised, fault]
    written_index,  \* history: the last index set_lab_index stored and when, since the last clear
    written_labs,   \* history: per lab_id, the last Lab set_lab stored and when, since the last clear
    cleared,        \* history: the rows the last clear removed while no set followed it, else -1
    cli,            \* the running command-line lookup: [pc, held, read_fault, scrapes, stored, result]
    full,           \* the running get_full_lab or scrape_full_lab call: [fn, pc, arg,
                    \* use_cache, index, lab, held, read, read_fault, scrapes, stored,
                    \* result, calls]
    ev              \* the last evaluation of a function of the parser, the models,
                    \* the configuration or the generator: [fn, arg, result]

scraperVars == <<max_retries, retry_delay>>
fetchVars == <<pc, url, attempt, last_error, requests, sleeps, outcome>>
cacheVars == <<now, ttl, rows, last_op, written_index, written_labs, cleared>>
\* the variables of the calls built on the cache and the scraper
callVars == <<full, ev>>
vars == <<scraperVars, fetchVars, cacheVars, cli, callVars>>

(***************************************************************************)
(* Scraper.fetch_page                                                      *)
(***************************************************************************)
\* delay = self.retry_delay * (2**attempt)
BackoffLinear(k) == retry_delay * (k + 1)
BackoffDelay(k) == retry_delay * (2 ^ k)

\* e.response.status_code >= 500
StatusIsRetriedFrom400(r) == r.status_code >= 400
StatusIsRetried(r) == r.status_code >= 500

Returned(text) == [kind |-> "return", text |-> text, status_code |-> 0]
ScraperErrorHttp(status) == [kind |-> "ScraperError", text |-> "HTTP error", status_code |-> status]
ScraperErrorExhausted == [kind |-> "ScraperError", text |-> "Failed to fetch", status_code |-> 0]

\* the body of one except clause that retries: remember the error, sleep
RetryAfter(r, cause) ==
    /\ last_error' = r
    /\ sleeps' = Append(sleeps, [attempt |-> attempt, cause |-> cause, delay |-> BackoffDelay(attempt)])
    /\ attempt' = attempt + 1
    /\ UNCHANGED <<pc, outcome>>

\* a call of fetch_page(u): last_error = None, the loop starts at attempt 0
StartFetch(u) ==
    /\ pc' = "loop"
    /\ url' = u
    /\ attempt' = 0
    /\ last_error' = None
    /\ requests' = <<>>
    /\ sleeps' = <<>>
    /\ outcome' = None

\* one iteration of the for loop: the GET and the clause that handles its result
FetchIteration(r) ==
    /\ requests' = Append(requests, r)
    /\ url' = url
    /\ IF r.kind = "Response" /\ ~RaisesForStatus(r)
       THEN /\ pc' = "returned"
            /\ outcome' = Returned(r.text)
            /\ UNCHANGED <<attempt, last_error, sleeps>>
       ELSE IF r.kind = "TimeoutException"
       THEN RetryAfter(r, "TimeoutException")
       ELSE IF r.kind = "Response"
       THEN IF StatusIsRetried(r)
            THEN RetryAfter(r, "HTTPStatusError")
            ELSE /\ pc' = "raised"
                 /\ outcome' = ScraperErrorHttp(r.status_code)
                 /\ UNCHANGED <<attempt, last_error, sleeps>>
       ELSE RetryAfter(r, "RequestError")

\* for attempt in range(self.max_retries)
LoopContinuesOffByOne == attempt <= max_retries
LoopContinues == attempt < max_retries

\* the raise after the loop
FetchFallThroughReturnsNone ==
    /\ pc' = "returned"
    /\ outcome' = None
    /\ UNCHANGED <<url, attempt, last_error, requests, sleeps>>
FetchFallThrough ==
    /\ pc' = "raised"
    /\ outcome' = ScraperErrorExhausted
    /\ UNCHANGED <<url, attempt, last_error, requests, sleeps>>

FetchPage(u) ==
    /\ pc \in {"idle", "returned", "raised"}
    /\ StartFetch(u)
    /\ UNCHANGED <<scraperVars, cacheVars, cli, callVars>>

FetchAttempt(r) ==
    /\ pc = "loop"
    /\ LoopContinues
    /\ FetchIteration(r)
    /\ UNCHANGED <<scraperVars, cacheVars, cli, callVars>>

FetchExhausted ==
    /\ pc = "loop"
    /\ ~LoopContinues
    /\ FetchFallThrough
    /\ UNCHANGED <<scraperVars, cacheVars, cli, callVars>>

\* no lookup has been made
CliIdle ==
    cli = [pc |-> "idle", held |-> None, read_fault |-> FALSE, scrapes |-> 0,
           stored |-> None, result |-> None]

\* no get_full_lab call has been made, no function evaluated
FullIdle ==
    full = [fn |-> "", pc |-> "idle", arg |-> "", use_cache |-> TRUE, index |-> None,
            lab |-> None, held |-> None,
            read |-> FALSE, read_fault |-> FALSE, scrapes |-> 0, stored |-> None,
            result |-> None, calls |-> 0]
CallsIdle == FullIdle /\ ev = [fn |-> "", arg |-> None, result |-> None]

FetchIdle ==
    /\ pc = "idle"
    /\ url = DEFAULT_BASE_URL
    /\ attempt = 0
    /\ last_error = None
    /\ requests = <<>>
    /\ sleeps = <<>>
    /\ outcome = None

(***************************************************************************)
(* The diskcache store behind LabCache, as LabCache uses it.  A row        *)
(* expires at expire_time; get and "in" see a row only while               *)
(* expire_time > now, len and iteration count every row, and a set drops   *)
(* the rows that have expired (cull_limit is larger than the store here).  *)
(***************************************************************************)
RowOf(rs, key) == IF \E i \in 1..Len(rs) : rs[i].key = key
                  THEN CHOOSE i \in 1..Len(rs) : rs[i].key = key
                  ELSE 0
IsLiveInclusive(row, t) == row.expire_time >= t
IsLive(row, t) == row.expire_time > t
\* self._cache.get(key)
StoreGet(rs, key, t) ==
    LET i == RowOf(rs, key)
    IN  IF i # 0 /\ IsLive(rs[i], t) THEN rs[i].value ELSE None
Cull(rs, t) == SelectSeq(rs, LAMBDA row : ~(row.expire_time < t))
\* self._cache.set(key, value, expire=expire)
StoreSetAlwaysInserts(rs, key, value, expire, t) ==
    Cull(Append(rs, [key |-> key, value |-> value, expire_time |-> t + expire]), t)
StoreSet(rs, key, value, expire, t) ==
    LET i == RowOf(rs, key)
        row == [key |-> key, value |-> value, expire_time |-> t + expire]
    IN  Cull(IF i # 0 THEN [rs EXCEPT ![i] = row] ELSE Append(rs, row), t)
\* self._cache.clear()
StoreClearOnlyExpired(rs, t) == SelectSeq(rs, LAMBDA row : IsLive(row, t))
StoreClear(rs, t) == <<>>
\* len(self._cache)
StoreLen(rs) == Len(rs)
\* key in self._cache
StoreContains(rs, key, t) == RowOf(rs, key) # 0 /\ IsLive(rs[RowOf(rs, key)], t)
\* for key in self._cache
StoreKeys(rs) == [i \in 1..Len(rs) |-> rs[i].key]

(***************************************************************************)
(* LabCache                                                                *)
(***************************************************************************)
\* key = f"{LAB_PREFIX}{lab_id}"
LabKeyShared(lab_id) == LAB_PREFIX
LabKey(lab_id) == LAB_PREFIX \o lab_id

\* try: ... except Exception: pass -- does an exception of the body leave the method?
ExceptPropagates(raised_in_body) == raised_in_body
ExceptPass(raised_in_body) == FALSE

\* what get_lab_index returns when no exception leaves it; fault: the store raises
GetLabIndexResult(rs, t, fault) ==
    LET data == StoreGet(rs, LAB_INDEX_KEY, t)
        index == LabIndex_from_dict(data, t)
    IN  IF fault THEN None
        ELSE IF data # None /\ index # KeyError THEN index
        ELSE None
GetLabIndexRaises(rs, t, fault) ==
    LET data == StoreGet(rs, LAB_INDEX_KEY, t)
    IN  fault \/ (data # None /\ LabIndex_from_dict(data, t) = KeyError)

GetLabResult(rs, lab_id, t, fault) ==
    LET data == StoreGet(rs, LabKey(lab_id), t)
        lab == Lab_from_dict(data)
    IN  IF fault THEN None
        ELSE IF data # None /\ lab # KeyError THEN lab
        ELSE None
GetLabRaises(rs, lab_id, t, fault) ==
    LET data == StoreGet(rs, LabKey(lab_id), t)
    IN  fault \/ (data # None /\ Lab_from_dict(data) = KeyError)

StartsWith(str, prefix) ==
    Len(str) >= Len(prefix) /\ SubSeq(str, 1, Len(prefix)) = prefix
\* get_cache_info: the fields the store decides
CacheInfo(rs, t) ==
    LET keys == SelectSeq(StoreKeys(rs), LAMBDA key : StartsWith(key, LAB_PREFIX))
    IN  [kind |-> "CacheInfo",
         entry_count |-> StoreLen(rs),
         lab_index_cached |-> StoreContains(rs, LAB_INDEX_KEY, t),
         cached_labs |-> [i \in 1..Len(keys) |-> SubSeq(keys[i], Len(LAB_PREFIX) + 1, Len(keys[i]))]]

Op(op, arg, result, raised, fault) ==
    [op |-> op, arg |-> arg, result |-> result, raised |-> raised, fault |-> fault]
Written(value, t) == [kind |-> "Written", value |-> value, at |-> t]
\* what the history says a get at time t must return
ExpectedIndex(t) ==
    IF written_index # None /\ t < written_index.at + ttl THEN written_index.value ELSE None
ExpectedLab(lab_id, t) ==
    IF written_labs[lab_id] # None /\ t < written_labs[lab_id].at + ttl
    THEN written_labs[lab_id].value
    ELSE None

get_lab_index(fault) ==
    /\ last_op' = Op("get_lab_index", "", GetLabIndexResult(rows, now, fault),
                     ExceptPass(GetLabIndexRaises(rows, now, fault)), fault)
    /\ UNCHANGED <<now, ttl, rows, written_index, written_labs, cleared>>

set_lab_index(index, fault) ==
    /\ rows' = IF fault THEN rows
               ELSE StoreSet(rows, LAB_INDEX_KEY, LabIndex_to_dict(index), ttl, now)
    /\ written_index' = IF fault THEN written_index ELSE Written(index, now)
    /\ cleared' = -1
    /\ last_op' = Op("set_lab_index", "", None, ExceptPass(fault), fault)
    /\ UNCHANGED <<now, ttl, written_labs>>

get_lab(lab_id, fault) ==
    /\ last_op' = Op("get_lab", lab_id, GetLabResult(rows, lab_id, now, fault),
                     ExceptPass(GetLabRaises(rows, lab_id, now, fault)), fault)
    /\ UNCHANGED <<now, ttl, rows, written_index, written_labs, cleared>>

set_lab(lab, fault) ==
    /\ rows' = IF fault THEN rows
               ELSE StoreSet(rows, LabKey(lab.lab_id), Lab_to_dict(lab), ttl, now)
    /\ written_labs' = IF fault THEN written_labs
                       ELSE [written_labs EXCEPT ![lab.lab_id] = Written(lab, now)]
    /\ cleared' = -1
    /\ last_op' = Op("set_lab", lab.lab_id, None, ExceptPass(fault), fault)
    /\ UNCHANGED <<now, ttl, written_index>>

clear_cache(fault) ==
    /\ rows' = IF fault THEN rows ELSE StoreClear(rows, now)
    /\ written_index' = IF fault THEN written_index ELSE None
    /\ written_labs' = IF fault THEN written_labs ELSE [id \in LabIds \cup {IndexLab3.lab_id} |-> None]
    /\ cleared' = IF fault THEN cleared ELSE Len(rows)
    /\ last_op' = Op("clear_cache", "", None, ExceptPass(fault), fault)
    /\ UNCHANGED <<now, ttl>>

\* len(self._cache) and the iteration are outside any try
get_cache_info(fault) ==
    /\ last_op' = Op("get_cache_info", "", IF fault THEN None ELSE CacheInfo(rows, now), fault, fault)
    /\ UNCHANGED <<now, ttl, rows, written_index, written_labs, cleared>>

close(fault) ==
    /\ last_op' = Op("close", "", None, ExceptPass(fault), fault)
    /\ UNCHANGED <<now, ttl, rows, written_index, written_labs, cleared>>

OtherThanCache == <<scraperVars, fetchVars, cli, callVars>>
GetLabIndex(fault) == get_lab_index(fault) /\ UNCHANGED OtherThanCache
SetLabIndex(labs, fault) == set_lab_index(LabIndex(labs, "", now), fault) /\ UNCHANGED OtherThanCache
GetLab(lab_id, fault) == get_lab(lab_id, fault) /\ UNCHANGED OtherThanCache
SetLab(lab, fault) == set_lab(lab, fault) /\ UNCHANGED OtherThanCache
ClearCache(fault) == clear_cache(fault) /\ UNCHANGED OtherThanCache
GetCacheInfo(fault) == get_cache_info(fault) /\ UNCHANGED OtherThanCache
Close(fault) == close(fault) /\ UNCHANGED OtherThanCache

\* time passes, in steps of half the time to live (of a second when that is less)
TickStep == IF ttl \div 2 > 1 THEN ttl \div 2 ELSE 1
Tick ==
    /\ now + TickStep <= MaxTime * TickStep
    /\ now' = now + TickStep
    /\ last_op' = Op("tick", "", None, FALSE, FALSE)
    /\ UNCHANGED <<ttl, rows, written_index, written_labs, cleared>>
    /\ UNCHANGED OtherThanCache

\* an empty cache directory
CacheFresh ==
    /\ now = 0
    /\ rows = <<>>
    /\ last_op = Op("init", "", None, FALSE, FALSE)
    /\ written_index = None
    /\ written_labs = [id \in LabIds \cup {IndexLab3.lab_id} |-> None]
    /\ cleared = -1

\* LabCache(cache_dir, ttl)
InitCache ==
    /\ ttl \in 1..MaxTtl
    /\ CacheFresh
    /\ max_retries = DEFAULT_MAX_RETRIES
    /\ retry_delay = DEFAULT_RETRY_DELAY
    /\ FetchIdle
    /\ CliIdle
    /\ CallsIdle

NextCache ==
    \/ \E f \in BOOLEAN : GetLabIndex(f)
    \/ \E labs \in SampleLabLists, f \in BOOLEAN : SetLabIndex(labs, f)
    \/ \E id \in LabIds, f \in BOOLEAN : GetLab(id, f)
    \/ \E lab \in SampleLabs, f \in BOOLEAN : SetLab(lab, f)
    \/ \E f \in BOOLEAN : ClearCache(f)
    \/ \E f \in BOOLEAN : GetCacheInfo(f)
    \/ \E f \in BOOLEAN : Close(f)
    \/ Tick

SpecCache == InitCache /\ [][NextCache]_vars

\* Scraper(base_url, timeout, max_retries, retry_delay)
InitScraper ==
    /\ max_retries \in 0..MaxRetriesBound
    /\ retry_delay \in 1..MaxRetryDelay
    /\ FetchIdle
    /\ ttl = DEFAULT_TTL
    /\ CacheFresh
    /\ CliIdle
    /\ CallsIdle

NextScraper ==
    \/ \E u \in {DEFAULT_BASE_URL, DEFAULT_BASE_URL \o "labs/G01.1_Intro/"} : FetchPage(u)
    \/ \E r \in Responses : FetchAttempt(r)
    \/ FetchExhausted

SpecScraper == InitScraper /\ [][NextScraper]_vars

\* the event loop runs the coroutine: a started call is not left suspended for ever
FairSpecScraper ==
    /\ SpecScraper
    /\ WF_vars(\E r \in Responses : FetchAttempt(r))
    /\ WF_vars(FetchExhausted)

(***************************************************************************)
(* parser.py: what the parser reads in a page.  A page is the record of    *)
(* what BeautifulSoup finds in it:                                         *)
(*   title     the title attribute of google-codelab, else the text of     *)
(*             <title> or <h1>, else ""                                    *)
(*   steps     the google-codelab-step elements: their label and the text  *)
(*             of the bold element of each list item outside code          *)
(*   li_steps  the li elements of class step: the text of their label      *)
(*             span, if any, and their own text                            *)
(*   a_steps   the same for the a elements of class step                   *)
(*   drawer    the number of hash links in div#drawer, None without one    *)
(*   nav       the number of hash links in the first nav, None without one *)
(*   rest      the title and the bold list items of the content that is    *)
(*             read when a step is missing (div.instructions, div.step or  *)
(*             the page)                                                   *)
(***************************************************************************)
Html(title, steps, li_steps, a_steps, drawer, nav, rest) ==
    [title |-> title, steps |-> steps, li_steps |-> li_steps, a_steps |-> a_steps,
     drawer |-> drawer, nav |-> nav, rest |-> rest]
Step(label, bold) == [label |-> label, bold |-> bold]
NavStep(label, text) == [label |-> label, text |-> text]

RECURSIVE Flatten(_)
Flatten(ss) == IF ss = <<>> THEN <<>> ELSE Head(ss) \o Flatten(Tail(ss))

\* parse_lab_page_html(html): (lab_title, section_titles)
parse_lab_page_html(page) ==
    LET labels == SelectSeq([i \in 1..Len(page.steps) |-> page.steps[i].label],
                            LAMBDA label : label # "")
        nav_steps == (IF page.li_steps # <<>> THEN page.li_steps ELSE page.a_steps)
        \* the titles one navigation step adds to section_titles
        titles(step) == IF step.label # None THEN <<step.label.v>>
                        ELSE IF step.text # "" THEN <<step.text>>
                        ELSE <<>>
    IN  [lab_title |-> page.title,
         section_titles |->
             IF labels # <<>> THEN labels
             ELSE Flatten([i \in 1..Len(nav_steps) |-> titles(nav_steps[i])])]

\* Question(text=text, requires_screenshot=False, requires_odinid=False)
\* for every bold list item with text
extract_deliverable_questions(bold) ==
    LET texts == SelectSeq(bold, LAMBDA text : text # "")
    IN  [i \in 1..Len(texts) |-> Question(texts[i], FALSE, FALSE)]

\* parse_lab_section_html(html, section_number)
parse_lab_section_html(page, section_number) ==
    LET step_index == section_number - 1
        found == step_index < Len(page.steps)
        section_title == IF found THEN page.steps[step_index + 1].label ELSE page.rest.title
        step_content == IF found THEN page.steps[step_index + 1].bold ELSE page.rest.bold
    IN  Section(section_number, section_title, extract_deliverable_questions(step_content),
                "#" \o ToString(section_number - 1))

\* get_section_count(html)
get_section_count_nav_first(page) ==
    LET steps == (IF page.li_steps # <<>> THEN page.li_steps ELSE page.a_steps)
        nav == IF page.drawer # None THEN page.drawer ELSE page.nav
    IN  IF steps # <<>> THEN Len(steps)
        ELSE IF page.steps # <<>> THEN Len(page.steps)
        ELSE IF nav # None /\ nav.v > 0 THEN nav.v
        ELSE 0
get_section_count(page) ==
    LET codelab_steps == page.steps
        steps == (IF page.li_steps # <<>> THEN page.li_steps ELSE page.a_steps)
        nav == IF page.drawer # None THEN page.drawer ELSE page.nav
    IN  IF codelab_steps # <<>> THEN Len(codelab_steps)
        ELSE IF steps # <<>> THEN Len(steps)
        ELSE IF nav # None /\ nav.v > 0 THEN nav.v
        ELSE 0

(***************************************************************************)
(* Scraper.scrape_lab_sections, after the page has been fetched            *)
(***************************************************************************)
\* num_sections = 10  # Default to trying 10 sections
DEFAULT_NUM_SECTIONS == 10

\* the number of sections scrape_lab_sections tries to parse
NumSections(count, section_titles) ==
    LET first == IF count = 0 /\ section_titles # <<>> THEN Len(section_titles) ELSE count
    IN  IF first = 0 THEN DEFAULT_NUM_SECTIONS ELSE first

\* scrape_lab_sections(lab), given the page that fetch_page(lab.url) returned
scrape_lab_sections(lab, page) ==
    LET parsed == parse_lab_page_html(page)
        num_sections == NumSections(get_section_count(page), parsed.section_titles)
        \* the section the loop body makes of index i (from 0)
        scraped(i) ==
            LET section == parse_lab_section_html(page, i + 1)
            IN  IF i < Len(parsed.section_titles) /\ parsed.section_titles[i + 1] # ""
                       /\ section.title = ""
                THEN [section EXCEPT !.title = parsed.section_titles[i + 1]]
                ELSE section
        all == [i \in 1..num_sections |-> scraped(i - 1)]
        sections == SelectSeq(all, LAMBDA section : section.title # "" \/ section.questions # <<>>)
    IN  [lab EXCEPT !.title = IF parsed.lab_title # "" /\ lab.title = ""
                               THEN parsed.lab_title ELSE lab.title,
                    !.sections = sections]

\* the pages of the site, as the parser sees them
Soup(html) ==
    IF html = "lab"
    THEN Html("Intro", <<Step("Setup", <<"Take a screenshot of the output">>),
                         Step("Run", <<"", "Include your OdinId">>)>>,
              <<>>, <<>>, Some(2), None, [title |-> "", bold |-> <<>>])
    ELSE Html("CS475", <<>>, <<>>, <<>>, None, None, [title |-> "", bold |-> <<>>])

(***************************************************************************)
(* cli.py: get_lab_index_with_cache.  get_cache() and get_scraper() build  *)
(* LabCache() and Scraper() with their defaults.  The lookup runs in       *)
(* steps, since the scrape awaits the fetch: the cache read, the fetch of   *)
(* the index page, then the parse and the cache write.                     *)
(***************************************************************************)
\* parse_lab_index_html(html, base_url): the lab cards of the page
parse_lab_index_html(html) ==
    CASE html = "index1" -> <<IndexLab1, IndexLab2>>
      [] html = "index2" -> <<IndexLab2, IndexLab3>>
      [] OTHER -> <<>>

\* if index is None
IndexIsNoneAlways(index) == TRUE
IndexIsNone(index) == index = None

\* no fetch_page call has run in this lookup
FetchReset ==
    /\ pc' = "idle"
    /\ url' = DEFAULT_BASE_URL
    /\ attempt' = 0
    /\ last_error' = None
    /\ requests' = <<>>
    /\ sleeps' = <<>>
    /\ outcome' = None

\* the call, up to the return of the cached index or the start of the scrape
get_lab_index_with_cache(fault) ==
    /\ cli.pc \in {"idle", "returned", "raised"}
    /\ get_lab_index(fault)
    /\ LET index == GetLabIndexResult(rows, now, fault)
       IN  IF IndexIsNone(index)
           THEN /\ StartFetch(DEFAULT_BASE_URL)
                /\ cli' = [pc |-> "scraping", held |-> ExpectedIndex(now), read_fault |-> fault,
                           scrapes |-> 1, stored |-> None, result |-> None]
           ELSE /\ FetchReset
                /\ cli' = [pc |-> "returned", held |-> ExpectedIndex(now), read_fault |-> fault,
                           scrapes |-> 0, stored |-> None, result |-> index]
    /\ UNCHANGED scraperVars

CliGetLabIndex(fault) == get_lab_index_with_cache(fault) /\ UNCHANGED callVars

\* scrape_lab_index returned: LabIndex(labs=labs), cache.set_lab_index(index), return index
CliIndexScraped(fault) ==
    /\ cli.pc = "scraping"
    /\ pc = "returned"
    /\ LET index == LabIndex(parse_lab_index_html(outcome.text), "", now)
       IN  /\ set_lab_index(index, fault)
           /\ cli' = [cli EXCEPT !.pc = "returned", !.stored = index, !.result = index]
    /\ UNCHANGED <<scraperVars, fetchVars, callVars>>

\* fetch_page raised ScraperError: it leaves get_lab_index_with_cache
CliScrapeRaised ==
    /\ cli.pc = "scraping"
    /\ pc = "raised"
    /\ cli' = [cli EXCEPT !.pc = "raised"]
    /\ UNCHANGED <<scraperVars, fetchVars, cacheVars, callVars>>

\* get_cache() and get_scraper(): LabCache() and Scraper()
InitCli ==
    /\ max_retries = DEFAULT_MAX_RETRIES
    /\ retry_delay = DEFAULT_RETRY_DELAY
    /\ FetchIdle
    /\ ttl = DEFAULT_TTL
    /\ CacheFresh
    /\ CliIdle
    /\ CallsIdle

NextCli ==
    \/ \E f \in BOOLEAN : CliGetLabIndex(f)
    \/ \E r \in Responses : FetchAttempt(r)
    \/ FetchExhausted
    \/ \E f \in BOOLEAN : CliIndexScraped(f)
    \/ CliScrapeRaised
    \/ Tick

SpecCli == InitCli /\ [][NextCli]_vars

(***************************************************************************)
(* models.py: the lookups of LabIndex; cli.py: get_full_lab;               *)
(* scraper.py: scrape_full_lab.  Both calls find the lab in the index and  *)
(* then fetch its page; get_full_lab goes through the cache.               *)
(***************************************************************************)
\* for lab in self.labs: if lab.lab_id == lab_id: return lab
get_lab_by_id(index, lab_id) ==
    LET hits == SelectSeq(index.labs, LAMBDA lab : lab.lab_id = lab_id)
    IN  IF hits # <<>> THEN Head(hits) ELSE None
\* for lab in self.labs: if lab.number == number: return lab
get_lab_by_number(index, number) ==
    LET hits == SelectSeq(index.labs, LAMBDA lab : lab.number = number)
    IN  IF hits # <<>> THEN Head(hits) ELSE None

\* lab = index.get_lab_by_id(x); if not lab: lab = index.get_lab_by_number(x)
FindLabNumberFirst(index, x) ==
    LET lab == get_lab_by_number(index, x)
    IN  IF lab = None THEN get_lab_by_id(index, x) ELSE lab
FindLab(index, x) ==
    LET lab == get_lab_by_id(index, x)
    IN  IF lab = None THEN get_lab_by_number(index, x) ELSE lab

\* if cached_lab and cached_lab.sections
CachedLabAnswers(cached_lab) == cached_lab # None /\ cached_lab.sections # <<>>

\* if use_cache
ReadsCacheAlways(use_cache) == TRUE
ReadsCache(use_cache) == use_cache

FullDone == full.pc \in {"idle", "returned", "raised"}
FullStart(fn, x, use_cache) ==
    [fn |-> fn, pc |-> "index", arg |-> x, use_cache |-> use_cache, index |-> None,
     lab |-> None, held |-> None, read |-> FALSE, read_fault |-> FALSE, scrapes |-> 0, stored |-> None,
     result |-> None, calls |-> full.calls + (IF fn = "get_full_lab" THEN 1 ELSE 0)]

\* get_full_lab(x, use_cache) up to the first step of get_lab_index_with_cache
GetFullLab(x, use_cache, fault) ==
    /\ FullDone
    /\ full.calls < MaxCalls
    /\ get_lab_index_with_cache(fault)
    /\ full' = FullStart("get_full_lab", x, use_cache)
    /\ UNCHANGED ev

\* a ScraperError of the index scrape leaves get_full_lab
FullIndexRaised ==
    /\ full.fn = "get_full_lab"
    /\ full.pc = "index"
    /\ cli.pc = "raised"
    /\ full' = [full EXCEPT !.pc = "raised"]
    /\ UNCHANGED <<scraperVars, fetchVars, cacheVars, cli, ev>>

\* the index is there: find the lab, ask the cache, return or start the scrape
FullLookup(fault) ==
    /\ full.fn = "get_full_lab"
    /\ full.pc = "index"
    /\ cli.pc = "returned"
    /\ LET lab == FindLab(cli.result, full.arg)
           cached_lab == GetLabResult(rows, lab.lab_id, now, fault)
       IN  IF lab = None
           THEN /\ full' = [full EXCEPT !.pc = "returned", !.index = cli.result,
                                        !.result = None]
                /\ UNCHANGED <<fetchVars, cacheVars>>
           ELSE IF ReadsCache(full.use_cache)
           THEN /\ get_lab(lab.lab_id, fault)
                /\ IF CachedLabAnswers(cached_lab)
                   THEN /\ full' = [full EXCEPT !.pc = "returned", !.index = cli.result,
                                                !.lab = lab,
                                                !.held = ExpectedLab(lab.lab_id, now),
                                                !.read = TRUE, !.read_fault = fault,
                                                !.result = cached_lab]
                        /\ UNCHANGED fetchVars
                   ELSE /\ full' = [full EXCEPT !.pc = "scraping", !.index = cli.result,
                                                !.lab = lab,
                                                !.held = ExpectedLab(lab.lab_id, now),
                                                !.read = TRUE, !.read_fault = fault,
                                                !.scrapes = 1]
                        /\ StartFetch(lab.url)
           ELSE /\ full' = [full EXCEPT !.pc = "scraping", !.index = cli.result,
                                        !.lab = lab,
                                        !.held = ExpectedLab(lab.lab_id, now),
                                        !.scrapes = 1]
                /\ StartFetch(lab.url)
                /\ UNCHANGED cacheVars
    /\ UNCHANGED <<scraperVars, cli, ev>>

\* scrape_lab_sections_sync returned: cache.set_lab(lab), return lab
FullLabScraped(fault) ==
    /\ full.fn = "get_full_lab"
    /\ full.pc = "scraping"
    /\ pc = "returned"
    /\ LET lab == scrape_lab_sections(full.lab, Soup(outcome.text))
       IN  /\ set_lab(lab, fault)
           /\ full' = [full EXCEPT !.pc = "returned", !.stored = lab, !.result = lab]
    /\ UNCHANGED <<scraperVars, fetchVars, cli, ev>>

\* fetch_page raised ScraperError while the lab page (for scrape_full_lab: any
\* page) was fetched
FullScrapeRaised ==
    /\ \/ full.pc = "scraping"
       \/ full.fn = "scrape_full_lab" /\ full.pc = "index"
    /\ pc = "raised"
    /\ full' = [full EXCEPT !.pc = "raised"]
    /\ UNCHANGED <<scraperVars, fetchVars, cacheVars, cli, ev>>

\* scrape_full_lab(x) up to the fetch of the index page
ScrapeFullLab(x) ==
    /\ FullDone
    /\ StartFetch(DEFAULT_BASE_URL)
    /\ full' = FullStart("scrape_full_lab", x, FALSE)
    /\ UNCHANGED <<scraperVars, cacheVars, cli, ev>>

\* scrape_lab_index returned: find the lab, return None or fetch its page
ScrapeFullLabLookup ==
    /\ full.fn = "scrape_full_lab"
    /\ full.pc = "index"
    /\ pc = "returned"
    /\ LET index == LabIndex(parse_lab_index_html(outcome.text), "", now)
           lab == FindLab(index, full.arg)
       IN  IF lab = None
           THEN /\ full' = [full EXCEPT !.pc = "returned", !.index = index, !.result = None]
                /\ UNCHANGED fetchVars
           ELSE /\ full' = [full EXCEPT !.pc = "scraping", !.index = index, !.lab = lab,
                                        !.scrapes = 1]
                /\ StartFetch(lab.url)
    /\ UNCHANGED <<scraperVars, cacheVars, cli, ev>>

\* return await self.scrape_lab_sections(lab)
ScrapeFullLabScraped ==
    /\ full.fn = "scrape_full_lab"
    /\ full.pc = "scraping"
    /\ pc = "returned"
    /\ full' = [full EXCEPT !.pc = "returned",
                            !.result = scrape_lab_sections(full.lab, Soup(outcome.text))]
    /\ UNCHANGED <<scraperVars, fetchVars, cacheVars, cli, ev>>

\* what a user passes as lab_id_or_number: an ID, a number that is also the ID
\* of another lab, a number, and an identifier of no lab
LookupArgs == {"G01.1_Intro", "01.2", "01.1", "99.9"}

\* the calls run one after the other; a call lasts seconds and the clock
\* advances by half a time to live, so time passes between the calls.  While
\* a call waits for fetch_page, a GET yields a page or the error that ends
\* fetch_page at once (SpecScraper follows the retries)
NextLab ==
    \/ \E x \in LookupArgs, use_cache \in BOOLEAN : GetFullLab(x, use_cache, FALSE)
    \/ \E r \in {HttpResponse(200, p) : p \in Pages} \cup {HttpResponse(404, "")} :
           /\ \/ full.pc = "scraping"
              \/ full.pc = "index" /\ (full.fn = "scrape_full_lab" \/ cli.pc = "scraping")
           /\ FetchAttempt(r)
    \/ full.pc = "index" /\ full.fn = "get_full_lab" /\ CliIndexScraped(FALSE)
    \/ full.pc = "index" /\ full.fn = "get_full_lab" /\ CliScrapeRaised
    \/ FullIndexRaised
    \/ \E f \in BOOLEAN : FullLookup(f)
    \/ \E f \in BOOLEAN : FullLabScraped(f)
    \/ FullScrapeRaised
    \/ \E x \in LookupArgs : ScrapeFullLab(x)
    \/ ScrapeFullLabLookup
    \/ ScrapeFullLabScraped
    \/ FullDone /\ Tick

SpecLab == InitCli /\ [][NextLab]_vars

(***************************************************************************)
(* config.py: get_config.  The sources are the CLI argument, the           *)
(* environment variable LAB_TEMPLATE_URL and the config file; the file is  *)
(* absent (None), or cannot be opened, or holds bytes that are not UTF-8,  *)
(* or text that is not JSON, or a JSON value.                              *)
(***************************************************************************)
\* cache_ttl_hours: int = 24
DEFAULT_CACHE_TTL_HOURS == 24

Config(base_url, cache_ttl_hours) ==
    [cls |-> "Config", base_url |-> base_url, cache_ttl_hours |-> cache_ttl_hours]
\* Config.from_dict(data)
Config_from_dict(data) ==
    Config(DictGet(data, "base_url", DEFAULT_BASE_URL),
           DictGet(data, "cache_ttl_hours", DEFAULT_CACHE_TTL_HOURS))

\* the config file: reading it fails with an error (kind "fails"), or it holds
\* a JSON value (kind "json"): an object with its data, or an array
ConfigFile(kind, error, json, data) ==
    [kind |-> kind, error |-> error, json |-> json, data |-> data]

\* if x: for an Optional[str]
Truthy(x) == x # None /\ x.v # ""

\* load_config_file(): open and json.load inside try, with
\* except (json.JSONDecodeError, IOError): return None; cls "raised" is an
\* exception that leaves the function
load_config_file(file) ==
    IF file = None THEN None
    ELSE IF file.kind = "fails"
    THEN IF file.error \in {"JSONDecodeError", "IOError"} THEN None
         ELSE [cls |-> "raised", exception |-> file.error]
    ELSE IF file.json # "object" THEN [cls |-> "raised", exception |-> "AttributeError"]
    ELSE Config_from_dict(file.data)

\* get_config(cli_url), with os.environ.get(ENV_BASE_URL) = env_url
get_config(cli_url, env_url, file) ==
    LET file_config == load_config_file(file)
        config == IF file_config # None THEN file_config
                  ELSE Config(DEFAULT_BASE_URL, DEFAULT_CACHE_TTL_HOURS)
        with_env == IF Truthy(env_url) THEN [config EXCEPT !.base_url = env_url.v] ELSE config
    IN  IF file_config # None /\ file_config.cls = "raised" THEN file_config
        ELSE IF Truthy(cli_url) THEN [with_env EXCEPT !.base_url = cli_url.v]
        ELSE with_env

\* the sources get_config is evaluated on
ConfigFiles ==
    LET objects ==
            {<<>>} \cup {("base_url" :> u) : u \in {"", "https://file.example/"}}
                \cup {("cache_ttl_hours" :> h) : h \in {12, 48}}
                \cup {("base_url" :> u) @@ ("cache_ttl_hours" :> h) :
                          u \in {"", "https://file.example/"}, h \in {12, 48}}
    IN  {None, ConfigFile("json", "", "array", <<>>)}
            \cup {ConfigFile("fails", e, "", <<>>) :
                      e \in {"IOError", "JSONDecodeError", "UnicodeDecodeError"}}
            \cup {ConfigFile("json", "", "object", data) : data \in objects}

Eval(fn, arg, result) == [fn |-> fn, arg |-> arg, result |-> result]

GetConfig(cli_url, env_url, file) ==
    /\ ev' = Eval("get_config", [cli_url |-> cli_url, env_url |-> env_url, file |-> file],
                  get_config(cli_url, env_url, file))
    /\ UNCHANGED <<scraperVars, fetchVars, cacheVars, cli, full>>

NextConfig ==
    \E cli_url \in {None, Some(""), Some("https://cli.example/")},
       env_url \in {None, Some(""), Some("https://env.example/")},
       file \in ConfigFiles :
        GetConfig(cli_url, env_url, file)

SpecConfig == InitCli /\ [][NextConfig]_vars

(***************************************************************************)
(* generator.py: generate_markdown and generate_docx.  The markdown file   *)
(* is the list of its lines, the Word document the list of its             *)
(* paragraphs: their style and text.                                       *)
(***************************************************************************)
\* Section.question_count, Lab.total_questions
question_count(section) == Len(section.questions)
RECURSIVE SumOf(_)
SumOf(ns) == IF ns = <<>> THEN 0 ELSE Head(ns) + SumOf(Tail(ns))
total_questions(lab) == SumOf([i \in 1..Len(lab.sections) |-> question_count(lab.sections[i])])

\* title = f"{lab.number}: {lab.title}"
LabTitle(lab) == lab.number \o ": " \o lab.title
\* section_title = f"{section.number}. {section.title}"
SectionTitle(section) == ToString(section.number) \o ". " \o section.title

\* if not section.questions: continue
SectionSkippedNever(section) == FALSE
SectionSkipped(section) == section.questions = <<>>

\* the lines the loop body appends for one section
MarkdownOfSection(section) ==
    IF SectionSkipped(section) THEN <<>>
    ELSE <<"## " \o SectionTitle(section), "">>
             \o [i \in 1..Len(section.questions) |-> "- " \o section.questions[i].text]
             \o <<"">>
\* generate_markdown(lab, output_path): the lines written
generate_markdown(lab) ==
    <<"# " \o LabTitle(lab), "">>
        \o Flatten([i \in 1..Len(lab.sections) |-> MarkdownOfSection(lab.sections[i])])

Paragraph(style, text) == [style |-> style, text |-> text]
\* the paragraphs the loop body adds for one section
DocxOfSection(section) ==
    IF SectionSkipped(section) THEN <<>>
    ELSE <<Paragraph("Heading 2", SectionTitle(section))>>
             \o [i \in 1..Len(section.questions) |->
                     Paragraph("List Bullet", section.questions[i].text)]
             \o <<Paragraph("Normal", "")>>
\* generate_docx(lab, output_path): the paragraphs of the document saved
generate_docx(lab) ==
    <<Paragraph("Heading 1", LabTitle(lab))>>
        \o Flatten([i \in 1..Len(lab.sections) |-> DocxOfSection(lab.sections[i])])

\* the labs the generators are run on: every section with or without a title
\* and with none, one or two questions
SectionShapes ==
    LET questions == <<Question("Take a screenshot of the output", FALSE, FALSE),
                       Question("Include your OdinId", FALSE, FALSE)>>
    IN  {[title |-> t, questions |-> SubSeq(questions, 1, n)] : t \in {"Setup", ""}, n \in 0..2}
LabOfShapes(shapes) ==
    Lab("01.1", "G01.1_Intro", "Intro", LabUrl("G01.1_Intro"),
        [i \in 1..Len(shapes) |->
             Section(i, shapes[i].title, shapes[i].questions, "#" \o ToString(i - 1))],
        None, None)
GeneratedLabs ==
    UNION {{LabOfShapes(shapes) : shapes \in [1..n -> SectionShapes]} : n \in 0..MaxSections}

GenerateMarkdown(lab) ==
    /\ ev' = Eval("generate_markdown", lab, generate_markdown(lab))
    /\ UNCHANGED <<scraperVars, fetchVars, cacheVars, cli, full>>
GenerateDocx(lab) ==
    /\ ev' = Eval("generate_docx", lab, generate_docx(lab))
    /\ UNCHANGED <<scraperVars, fetchVars, cacheVars, cli, full>>

NextGenerator ==
    \/ \E lab \in GeneratedLabs : GenerateMarkdown(lab)
    \/ \E lab \in GeneratedLabs : GenerateDocx(lab)

SpecGenerator == InitCli /\ [][NextGenerator]_vars

(***************************************************************************)
(* models.py: Question.from_text; parser.py and scraper.py run on a page:  *)
(* get_section_count and scrape_lab_sections as functions of the page.    *)
(***************************************************************************)
\* str.lower()
RECURSIVE str_lower(_)
str_lower(str) ==
    LET upper == "ABCDEFGHIJKLMNOPQRSTUVWXYZ"
        lower == "abcdefghijklmnopqrstuvwxyz"
        c == SubSeq(str, 1, 1)
        lowered == IF \E i \in 1..Len(upper) : SubSeq(upper, i, i) = c
                   THEN LET i == CHOOSE i \in 1..Len(upper) : SubSeq(upper, i, i) = c
                        IN  SubSeq(lower, i, i)
                   ELSE c
    IN  IF str = "" THEN "" ELSE lowered \o str_lower(SubSeq(str, 2, Len(str)))
\* str.strip()
RECURSIVE str_strip(_)
str_strip(str) ==
    IF str = "" THEN ""
    ELSE IF SubSeq(str, 1, 1) = " " THEN str_strip(SubSeq(str, 2, Len(str)))
    ELSE IF SubSeq(str, Len(str), Len(str)) = " " THEN str_strip(SubSeq(str, 1, Len(str) - 1))
    ELSE str
\* sub in str
Contains(str, sub) ==
    \E i \in 1..(Len(str) - Len(sub) + 1) : SubSeq(str, i, i + Len(sub) - 1) = sub

\* Question.from_text(text)
Question_from_text(text) ==
    LET text_lower == str_lower(text)
    IN  Question(str_strip(text), Contains(text_lower, "screenshot"),
                 Contains(text_lower, "odinid") \/ Contains(text_lower, "odin id"))

\* the pages the parser is run on
ParserPages ==
    LET StepShapes ==
            {Step("Setup", <<"Take a screenshot of the output">>),
             Step("", <<"", "Include your OdinId">>),
             Step("Run", <<>>)}
        StepLists == UNION {[1..n -> StepShapes] : n \in 0..2}
        LiStepLists == {<<>>, <<NavStep(Some("One"), "1 One")>>,
                        <<NavStep(None, "One"), NavStep(None, "")>>}
        AStepLists == {<<>>, <<NavStep(None, "Alpha"), NavStep(None, "Beta"),
                               NavStep(None, "Gamma")>>}
        HashLinkCounts == {None, Some(0), Some(4)}
        NavLinkCounts == {None, Some(0), Some(5)}
        Rests == {[title |-> "", bold |-> <<>>],
                  [title |-> "Overview", bold |-> <<"Submit a SCREENSHOT">>]}
    IN  {Html("Intro", steps, li_steps, a_steps, drawer, nav, rest) :
             steps \in StepLists, li_steps \in LiStepLists, a_steps \in AStepLists,
             drawer \in HashLinkCounts, nav \in NavLinkCounts, rest \in Rests}

\* get_section_count(html) on the page at hand
GetSectionCount ==
    /\ ev.fn = ""
    /\ ev' = Eval("get_section_count", ev.arg, get_section_count(ev.arg))
    /\ UNCHANGED <<scraperVars, fetchVars, cacheVars, cli, full>>

\* scrape_lab_sections(lab) when fetch_page(lab.url) returns the page at hand:
\* the lab returned and the number of sections the loop went through
ScrapeLabSections(lab) ==
    /\ ev.fn = ""
    /\ ev' = Eval("scrape_lab_sections", ev.arg,
                  [lab |-> scrape_lab_sections(lab, ev.arg),
                   num_sections |-> NumSections(get_section_count(ev.arg),
                                                parse_lab_page_html(ev.arg).section_titles)])
    /\ UNCHANGED <<scraperVars, fetchVars, cacheVars, cli, full>>

\* a page arrives
InitParser ==
    /\ max_retries = DEFAULT_MAX_RETRIES
    /\ retry_delay = DEFAULT_RETRY_DELAY
    /\ FetchIdle
    /\ ttl = DEFAULT_TTL
    /\ CacheFresh
    /\ CliIdle
    /\ FullIdle
    /\ ev \in {Eval("", page, None) : page \in ParserPages}

NextParser ==
    \/ GetSectionCount
    \/ \E lab \in {IndexLab1, IndexLab2} : ScrapeLabSections(lab)

SpecParser == InitParser /\ [][NextParser]_vars

(***************************************************************************)
(* models.py: to_json and from_json of Lab.  json.dumps writes a           *)
(* dictionary as a JSON object, a list as an array, a str as a string, an  *)
(* int as a number, a bool as true or false and None as null; json.loads   *)
(* reads them back.  A JSON text is modelled by the JSON value it denotes. *)
(***************************************************************************)
\* a JSON value: its type ("object", "array", "string", "number", "bool" or
\* "null") and what it holds
Json(type, v) == [json |-> type, v |-> v]

\* json.dumps of the dictionaries of to_dict
json_dumps_section(d) ==
    LET question(q) ==
            Json("object", [text |-> Json("string", q.text),
                            requires_screenshot |-> Json("bool", q.requires_screenshot),
                            requires_odinid |-> Json("bool", q.requires_odinid)])
    IN  Json("object",
             [number |-> Json("number", d.number), title |-> Json("string", d.title),
              questions |-> Json("array", [i \in 1..Len(d.questions) |-> question(d.questions[i])]),
              url_hash |-> Json("string", d.url_hash)])
json_dumps_lab(d) ==
    Json("object",
         [number |-> Json("string", d.number), lab_id |-> Json("string", d.lab_id),
          title |-> Json("string", d.title), url |-> Json("string", d.url),
          sections |-> Json("array", [i \in 1..Len(d.sections) |->
                                          json_dumps_section(d.sections[i])]),
          duration_minutes |-> IF d.duration_minutes = None THEN Json("null", None)
                               ELSE Json("number", d.duration_minutes.v),
          description |-> IF d.description = None THEN Json("null", None)
                          ELSE Json("string", d.description.v)])

\* json.loads of such a text
json_loads_section(j) ==
    LET question(q) ==
            [text |-> q.v.text.v, requires_screenshot |-> q.v.requires_screenshot.v,
             requires_odinid |-> q.v.requires_odinid.v]
    IN  [number |-> j.v.number.v, title |-> j.v.title.v,
         questions |-> [i \in 1..Len(j.v.questions.v) |-> question(j.v.questions.v[i])],
         url_hash |-> j.v.url_hash.v]
json_loads_lab(j) ==
    [number |-> j.v.number.v, lab_id |-> j.v.lab_id.v, title |-> j.v.title.v,
     url |-> j.v.url.v,
     sections |-> [i \in 1..Len(j.v.sections.v) |-> json_loads_section(j.v.sections.v[i])],
     duration_minutes |-> IF j.v.duration_minutes.json = "null" THEN None
                          ELSE Some(j.v.duration_minutes.v),
     description |-> IF j.v.description.json = "null" THEN None
                     ELSE Some(j.v.description.v)]

Lab_to_json(lab) == json_dumps_lab(Lab_to_dict(lab))
Lab_from_json(json_str) == Lab_from_dict(json_loads_lab(json_str))

\* the values that are serialised: labs with and without sections, durations
\* and descriptions, and indexes built with and without a last_updated
RoundTripLabs ==
    SampleLabs \cup {IndexLab3, Lab("", "", "", "", <<>>, Some(0), Some(""))}
        \cup {LabOfShapes(shapes) : shapes \in UNION {[1..n -> SectionShapes] : n \in 1..2}}

\* Lab.from_dict(lab.to_dict()), Lab.from_json(lab.to_json()) and
\* LabIndex.from_dict(index.to_dict()) for the value at hand
LabDictRoundTrip ==
    /\ ev.arg.cls = "Lab"
    /\ ev' = Eval("Lab.from_dict", ev.arg, Lab_from_dict(Lab_to_dict(ev.arg)))
    /\ UNCHANGED <<scraperVars, fetchVars, cacheVars, cli, full>>
LabJsonRoundTrip ==
    /\ ev.arg.cls = "Lab"
    /\ ev' = Eval("Lab.from_json", ev.arg, Lab_from_json(Lab_to_json(ev.arg)))
    /\ UNCHANGED <<scraperVars, fetchVars, cacheVars, cli, full>>
IndexDictRoundTrip ==
    /\ ev.arg.cls = "LabIndex"
    /\ ev' = Eval("LabIndex.from_dict", ev.arg, LabIndex_from_dict(LabIndex_to_dict(ev.arg), now))
    /\ UNCHANGED <<scraperVars, fetchVars, cacheVars, cli, full>>

\* the value at hand goes through the cache
StoreValue(fault) ==
    /\ IF ev.arg.cls = "Lab" THEN set_lab(ev.arg, fault) ELSE set_lab_index(ev.arg, fault)
    /\ UNCHANGED OtherThanCache
ReadValue(fault) ==
    /\ IF ev.arg.cls = "Lab" THEN get_lab(ev.arg.lab_id, fault) ELSE get_lab_index(fault)
    /\ UNCHANGED OtherThanCache

\* a value is at hand, built at time 0
InitModels ==
    /\ max_retries = DEFAULT_MAX_RETRIES
    /\ retry_delay = DEFAULT_RETRY_DELAY
    /\ FetchIdle
    /\ ttl = DEFAULT_TTL
    /\ now = 0
    /\ rows = <<>>
    /\ last_op = Op("init", "", None, FALSE, FALSE)
    /\ written_index = None
    /\ written_labs = [id \in {lab.lab_id : lab \in RoundTripLabs} |-> None]
    /\ cleared = -1
    /\ CliIdle
    /\ FullIdle
    /\ ev \in {Eval("", value, None) :
                   value \in RoundTripLabs \cup
                       {LabIndex(labs, last_updated, 0) :
                            labs \in SampleLabLists \cup
                                {<<>>, <<WithSections(IndexLab1, <<SampleSection>>), IndexLab3>>},
                            last_updated \in {"", "2024-01-01T00:00:00"}}}

NextModels ==
    \/ LabDictRoundTrip
    \/ LabJsonRoundTrip
    \/ IndexDictRoundTrip
    \/ \E f \in BOOLEAN : StoreValue(f)
    \/ \E f \in BOOLEAN : ReadValue(f)
    \/ Tick

SpecModels == InitModels /\ [][NextModels]_vars

(***************************************************************************)
(* Properties of fetch_page                                                *)
(***************************************************************************)
IsSuccess(r) == r.kind = "Response" /\ r.status_code < 400
FailsRetryably(r) ==
    \/ r.kind \in {"TimeoutException", "RequestError"}
    \/ r.kind = "Response" /\ r.status_code >= 500
IsClientError(r) == r.kind = "Response" /\ r.status_code >= 400 /\ r.status_code < 500
FetchDone == pc \in {"returned", "raised"}
\* a step out of a finished call can only be the start of the next call
OnlyAFreshCallFollows == pc' = "loop" /\ requests' = <<>> /\ sleeps' = <<>> /\ attempt' = 0

C1_State ==
    /\ Len(requests) <= max_retries
    /\ \A i \in 1..Len(requests) :
           IsSuccess(requests[i]) =>
               /\ i = Len(requests)
               /\ pc = "returned"
               /\ outcome = Returned(requests[i].text)
               /\ \A j \in 1..(i - 1) : ~IsSuccess(requests[j])
               /\ Len(sleeps) = i - 1
    /\ pc = "returned" => Len(requests) >= 1 /\ IsSuccess(requests[Len(requests)])

\* C1: a call of fetch_page issues at most max_retries GETs; it returns the body
\* of the first response without an error status, and after that response it
\* issues no GET and no sleep (the only step left is the start of another call).
C1_FetchReturnsFirstSuccess ==
    /\ []C1_State
    /\ [][pc = "returned" => OnlyAFreshCallFollows]_vars

\* a success on the last allowed attempt, after every earlier attempt failed
C1_Witness ==
    /\ pc = "returned"
    /\ max_retries >= 3
    /\ Len(requests) = max_retries
    /\ outcome.text = "index2"

AllAttemptsFailRetryably ==
    /\ Len(requests) = max_retries
    /\ \A i \in 1..Len(requests) : FailsRetryably(requests[i])

\* C2: fetch_page terminates; when each of the max_retries attempts fails with a
\* timeout, a status >= 500 or a request error, the call ends by raising
\* ScraperError: it returns nothing and issues no GET beyond max_retries.
C2_FetchTerminates ==
    /\ (pc = "loop") ~> FetchDone
    /\ (pc = "loop" /\ AllAttemptsFailRetryably)
           ~> (pc = "raised" /\ outcome.kind = "ScraperError" /\ Len(requests) = max_retries)
    /\ [](AllAttemptsFailRetryably /\ FetchDone => pc = "raised" /\ outcome.kind = "ScraperError")
    /\ [](Len(requests) <= max_retries)

\* three failed attempts of three kinds ended in ScraperError
C2_Witness ==
    /\ pc = "raised"
    /\ max_retries = 3
    /\ AllAttemptsFailRetryably
    /\ {requests[i].kind : i \in 1..3} = {"TimeoutException", "RequestError", "Response"}

\* C3: the delay slept after failed attempt k (from 0) is retry_delay * 2^k,
\* whatever the failure was (timeout, 5xx, request error): every retryable
\* failure is followed by one sleep, and successive delays double.
C3_BackoffIsExponential ==
    /\ Len(sleeps) = Cardinality({i \in 1..Len(requests) : FailsRetryably(requests[i])})
    /\ \A i \in 1..Len(sleeps) :
           /\ sleeps[i].attempt = i - 1
           /\ FailsRetryably(requests[i])
           /\ sleeps[i].delay = retry_delay * (2 ^ (i - 1))
           /\ i > 1 => sleeps[i].delay = 2 * sleeps[i - 1].delay

\* three sleeps in one call, one for each kind of failure
C3_Witness ==
    /\ Len(sleeps) >= 3
    /\ {sleeps[i].cause : i \in 1..3} = {"TimeoutException", "RequestError", "HTTPStatusError"}
    /\ retry_delay = 2

C4_State ==
    \A i \in 1..Len(requests) :
        IsClientError(requests[i]) =>
            /\ i = Len(requests)
            /\ pc = "raised"
            /\ outcome = ScraperErrorHttp(requests[i].status_code)
            /\ Len(sleeps) = i - 1

\* C4: a response with an error status below 500 is not retried: on whichever
\* attempt it arrives, ScraperError is raised at once, with no sleep for that
\* attempt and no GET after it.
C4_ClientErrorNotRetried ==
    /\ []C4_State
    /\ [][pc = "raised" => OnlyAFreshCallFollows]_vars

\* a 404 on the third attempt, after two retried failures
C4_Witness ==
    /\ pc = "raised"
    /\ Len(requests) = 3
    /\ IsClientError(requests[3])
    /\ Len(sleeps) = 2

(***************************************************************************)
(* Properties of LabCache                                                  *)
(***************************************************************************)
IsGet(op) == ~op.fault /\ op.op \in {"get_lab_index", "get_lab"}

\* C5: get_lab_index and get_lab return the value last stored by set_lab_index /
\* set_lab at a time t (and not cleared since) when called before t + ttl, and
\* None from t + ttl on and when nothing is stored; gets that the store fails are
\* C9's.
C5_GetReturnsUnexpiredValue ==
    /\ (last_op.op = "get_lab_index" /\ ~last_op.fault) => last_op.result = ExpectedIndex(now)
    /\ (last_op.op = "get_lab" /\ ~last_op.fault) => last_op.result = ExpectedLab(last_op.arg, now)

\* a get exactly at t + ttl of a stored lab returns None
C5_Witness ==
    /\ last_op.op = "get_lab"
    /\ ~last_op.fault
    /\ written_labs[last_op.arg] # None
    /\ now = written_labs[last_op.arg].at + ttl
    /\ last_op.result = None

KeyOfLab(lab_id) == "lab:" \o lab_id
\* the unexpired rows of the store under keys other than key
LiveRowsExcept(rs, t, key) ==
    {rs[i] : i \in {j \in 1..Len(rs) : rs[j].key # key /\ rs[j].expire_time > t}}
SetLabFrame ==
    \A lab \in SampleLabs, f \in BOOLEAN :
        (last_op' = Op("set_lab", lab.lab_id, None, FALSE, f) /\ SetLab(lab, f)) =>
            /\ LiveRowsExcept(rows', now', KeyOfLab(lab.lab_id)) = LiveRowsExcept(rows, now, KeyOfLab(lab.lab_id))
            /\ GetLabIndexResult(rows', now', FALSE) = GetLabIndexResult(rows, now, FALSE)
            /\ \A id \in LabIds \ {lab.lab_id} :
                   GetLabResult(rows', id, now', FALSE) = GetLabResult(rows, id, now, FALSE)
SetLabIndexFrame ==
    \A labs \in SampleLabLists, f \in BOOLEAN :
        (last_op' = Op("set_lab_index", "", None, FALSE, f) /\ SetLabIndex(labs, f)) =>
            /\ LiveRowsExcept(rows', now', "lab_index") = LiveRowsExcept(rows, now, "lab_index")
            /\ \A id \in LabIds :
                   GetLabResult(rows', id, now', FALSE) = GetLabResult(rows, id, now, FALSE)

\* the state after a get_lab (the initial state is after no call)
GetLabReturnsLatest ==
    (last_op.op = "get_lab" /\ ~last_op.fault) => last_op.result = ExpectedLab(last_op.arg, now)

KeysHeld == {rows[i].key : i \in 1..Len(rows)}

\* C7 as stated: after any sequence of set_lab_index and set_lab the store holds
\* at most two distinct keys.
C7_AtMostTwoKeys == Cardinality(KeysHeld) <= 2

\* C7 amended: the store holds one row per key, and its keys are "lab_index" and
\* "lab:<lab_id>" for lab_ids stored with set_lab since the last clear: at most
\* one key more than there are distinct lab_ids.
C7_OneKeyPerLabAndIndex ==
    /\ Cardinality(KeysHeld) = Len(rows)
    /\ \A key \in KeysHeld :
           \/ key = "lab_index" /\ written_index # None
           \/ \E id \in LabIds : key = KeyOfLab(id) /\ written_labs[id] # None
    /\ Cardinality(KeysHeld) <= 1 + Cardinality({id \in LabIds : written_labs[id] # None})

\* the index and two labs are stored: three keys
C7_Witness ==
    /\ KeysHeld = {"lab_index"} \cup {KeyOfLab(id) : id \in LabIds}
    /\ Cardinality(KeysHeld) = 3
    /\ last_op.op = "set_lab"

\* C8: after a clear_cache that succeeded and before any further set,
\* get_lab_index returns None, get_lab returns None for every lab_id, and
\* get_cache_info reports entry_count 0, lab_index_cached False and no cached
\* labs.
C8_ClearEmptiesCache ==
    cleared >= 0 =>
        /\ GetLabIndexResult(rows, now, FALSE) = None
        /\ \A id \in LabIds : GetLabResult(rows, id, now, FALSE) = None
        /\ CacheInfo(rows, now).entry_count = 0
        /\ CacheInfo(rows, now).lab_index_cached = FALSE
        /\ CacheInfo(rows, now).cached_labs = <<>>
        /\ IsGet(last_op) => last_op.result = None
        /\ (last_op.op = "get_cache_info" /\ ~last_op.fault) =>
               /\ last_op.result.entry_count = 0
               /\ last_op.result.lab_index_cached = FALSE
               /\ last_op.result.cached_labs = <<>>

\* get_cache_info after a clear that removed three rows
C8_Witness ==
    /\ cleared = 3
    /\ last_op.op = "get_cache_info"
    /\ ~last_op.fault
    /\ last_op.result.entry_count = 0

GuardedOps == {"get_lab_index", "get_lab", "set_lab_index", "set_lab", "clear_cache", "close"}
FailingWrite ==
    /\ last_op'.fault
    /\ \/ \E labs \in SampleLabLists : SetLabIndex(labs, TRUE)
       \/ \E lab \in SampleLabs : SetLab(lab, TRUE)

\* the state after a call (the initial state is after no call)
NothingRaisedToCaller ==
    /\ last_op.op \in GuardedOps => ~last_op.raised
    /\ (last_op.op \in {"get_lab_index", "get_lab"} /\ last_op.fault) => last_op.result = None

\* C9: get_lab_index, get_lab, set_lab_index, set_lab, clear_cache and close let
\* no exception reach the caller; a get whose read fails returns None, and a
\* set whose write fails leaves the stored rows as they were.
C9_NoExceptionEscapes == [][NothingRaisedToCaller' /\ (FailingWrite => rows' = rows)]_vars

\* a get_lab whose read failed while the lab was stored and unexpired
C9_Witness ==
    /\ last_op.op = "get_lab"
    /\ last_op.fault
    /\ ExpectedLab(last_op.arg, now) # None
    /\ last_op.result = None
    /\ ~last_op.raised

(***************************************************************************)
(* Properties of the command-line lookups                                  *)
(***************************************************************************)
CliCacheUsable == cli.held # None /\ ~cli.read_fault

\* C10: get_lab_index_with_cache uses the cache if available: when the cache
\* holds an unexpired index (and the read succeeds) the call returns that index
\* with no scrape and no GET; otherwise it makes exactly one
\* scrape_lab_index_sync call, and the index that call yields is passed to
\* set_lab_index and returned (a ScraperError leaves the call, nothing is stored).
C10_IndexFromCacheOrOneScrape ==
    /\ (cli.pc = "returned" /\ CliCacheUsable) =>
           /\ cli.result = cli.held
           /\ cli.scrapes = 0
           /\ cli.stored = None
           /\ pc = "idle" /\ requests = <<>>
    /\ (cli.pc # "idle" /\ ~CliCacheUsable) => cli.scrapes = 1
    /\ (cli.pc = "returned" /\ cli.scrapes = 1) =>
           /\ pc = "returned"
           /\ cli.result.cls = "LabIndex"
           /\ cli.result.labs = parse_lab_index_html(requests[Len(requests)].text)
           /\ cli.stored = cli.result
           /\ (last_op.op = "set_lab_index" /\ ~last_op.fault) =>
                  /\ written_index = Written(cli.result, now)
                  /\ \E i \in 1..Len(rows) :
                         /\ rows[i].key = "lab_index"
                         /\ rows[i].value = LabIndex_to_dict(cli.result)
    /\ cli.pc = "raised" =>
           /\ cli.scrapes = 1
           /\ outcome.kind = "ScraperError"
           /\ cli.stored = None

\* a second lookup, later, answered from the cache that the first one filled
C10_Witness ==
    /\ cli.pc = "returned"
    /\ CliCacheUsable
    /\ cli.scrapes = 0
    /\ now > 0
    /\ Len(cli.result.labs) = 2

(***************************************************************************)
(* Properties of get_full_lab and scrape_full_lab                          *)
(***************************************************************************)
\* the call found its lab in the index and went on
FullResolved == full.fn = "get_full_lab" /\ full.index # None /\ full.lab # None
\* the cache held an unexpired entry with sections for the lab, and gave it
FullCacheHit ==
    /\ full.held # None
    /\ full.held.sections # <<>>
    /\ ~full.read_fault

\* C11: get_full_lab(x, use_cache=True) returns the cached Lab, with no fetch of
\* the lab page and no set_lab, when the cache holds an unexpired entry with at
\* least one section for the lab's lab_id (and gives it); a lab page is fetched
\* with use_cache=True only when there is no such entry; with use_cache=False
\* the cache is not read, the lab page is fetched, and the scraped Lab is
\* passed to set_lab and returned: a write that succeeds leaves it as the entry.
C11_FullLabFromCacheOrScrape ==
    /\ (FullResolved /\ full.use_cache /\ FullCacheHit) =>
           /\ full.pc = "returned"
           /\ full.read
           /\ full.result = full.held
           /\ full.scrapes = 0
           /\ full.stored = None
           /\ url # full.lab.url
    /\ (FullResolved /\ full.use_cache /\ full.scrapes > 0) => ~FullCacheHit
    /\ (FullResolved /\ ~full.use_cache) =>
           /\ ~full.read
           /\ full.scrapes = 1
           /\ url = full.lab.url
           /\ full.pc = "raised" => outcome.kind = "ScraperError" /\ full.stored = None
           /\ full.pc = "returned" =>
                  /\ pc = "returned"
                  /\ full.result = scrape_lab_sections(full.lab, Soup(requests[Len(requests)].text))
                  /\ full.stored = full.result
                  /\ (last_op.op = "set_lab" /\ ~last_op.fault) =>
                         /\ written_labs[full.lab.lab_id] = Written(full.result, now)
                         /\ \E i \in 1..Len(rows) :
                                /\ rows[i].key = "lab:" \o full.lab.lab_id
                                /\ rows[i].value = Lab_to_dict(full.result)
                                /\ rows[i].expire_time = now + ttl

\* a second call answered from the entry the first call wrote
C11_Witness ==
    /\ FullResolved
    /\ full.use_cache
    /\ FullCacheHit
    /\ full.pc = "returned"
    /\ full.calls = 2
    /\ now > 0
    /\ Len(full.result.sections) = 2

\* the index of the running call lists a lab with this lab_id / with this number
SomeLabHasId(x) == \E i \in 1..Len(full.index.labs) : full.index.labs[i].lab_id = x
SomeLabHasNumber(x) == \E i \in 1..Len(full.index.labs) : full.index.labs[i].number = x
\* lab is the first lab of the index that satisfies Matches
IsFirstLab(lab, Matches(_)) ==
    \E i \in 1..Len(full.index.labs) :
        /\ full.index.labs[i] = lab
        /\ Matches(lab)
        /\ \A j \in 1..(i - 1) : ~Matches(full.index.labs[j])

\* C12: get_full_lab and scrape_full_lab look the identifier up as a lab ID
\* first and as a lab number second: a lab whose lab_id is the identifier is
\* chosen whether or not another lab has the identifier as its number; without
\* one, a lab whose number is the identifier is chosen; when no lab matches,
\* the call returns None, no lab page is fetched, the lab cache is not read and
\* no lab entry is written.
C12_LookupByIdThenNumber ==
    (full.fn \in {"get_full_lab", "scrape_full_lab"} /\ full.index # None) =>
        /\ SomeLabHasId(full.arg) =>
               IsFirstLab(full.lab, LAMBDA lab : lab.lab_id = full.arg)
        /\ (~SomeLabHasId(full.arg) /\ SomeLabHasNumber(full.arg)) =>
               IsFirstLab(full.lab, LAMBDA lab : lab.number = full.arg)
        /\ (~SomeLabHasId(full.arg) /\ ~SomeLabHasNumber(full.arg)) =>
               /\ full.lab = None
               /\ full.pc = "returned"
               /\ full.result = None
               /\ full.scrapes = 0
               /\ ~full.read
               /\ full.stored = None
               /\ url = DEFAULT_BASE_URL

\* "01.2" is the number of the first lab of the index and the lab ID of the
\* second: the second is scraped and returned
C12_Witness ==
    /\ full.fn = "get_full_lab"
    /\ full.pc = "returned"
    /\ full.arg = "01.2"
    /\ full.index # None
    /\ Len(full.index.labs) = 2
    /\ full.index.labs[1].number = "01.2"
    /\ full.lab = full.index.labs[2]
    /\ full.result.lab_id = "01.2"
    /\ full.result.number = "01.3"
    /\ full.scrapes = 1

(***************************************************************************)
(* Properties of get_config                                                *)
(***************************************************************************)
\* a source is present: the argument or the variable holds a URL, the file
\* holds a JSON object (with the key)
UrlPresent(x) == x # None /\ x.v # ""
FileValid(file) == file # None /\ file.kind = "json" /\ file.json = "object"
FileHas(file, key) == FileValid(file) /\ key \in DOMAIN file.data

\* C13: get_config returns a Config whose base_url is the value of the
\* highest-priority source that is present (CLI argument, then
\* LAB_TEMPLATE_URL, then the config file, then the default), and whose
\* cache_ttl_hours is the config file's when the file is valid and 24
\* otherwise.
C13_ConfigPriority ==
    ev.fn = "get_config" =>
        /\ ev.result.cls = "Config"
        /\ ev.result.base_url =
               IF UrlPresent(ev.arg.cli_url) THEN ev.arg.cli_url.v
               ELSE IF UrlPresent(ev.arg.env_url) THEN ev.arg.env_url.v
               ELSE IF FileHas(ev.arg.file, "base_url") THEN ev.arg.file.data["base_url"]
               ELSE "https://codelabs.cs.pdx.edu/cs475/"
        /\ ev.result.cache_ttl_hours =
               IF FileHas(ev.arg.file, "cache_ttl_hours")
               THEN ev.arg.file.data["cache_ttl_hours"]
               ELSE 24

(***************************************************************************)
(* Properties of the document generators                                   *)
(***************************************************************************)
\* what a line of the markdown file is
MarkdownElement(line) ==
    IF StartsWith(line, "## ") THEN [kind |-> "h2", text |-> SubSeq(line, 4, Len(line))]
    ELSE IF StartsWith(line, "# ") THEN [kind |-> "h1", text |-> SubSeq(line, 3, Len(line))]
    ELSE IF StartsWith(line, "- ") THEN [kind |-> "bullet", text |-> SubSeq(line, 3, Len(line))]
    ELSE [kind |-> "other", text |-> line]
\* what a paragraph of the Word document is
DocxElement(p) ==
    [kind |-> CASE p.style = "Heading 1" -> "h1"
                [] p.style = "Heading 2" -> "h2"
                [] p.style = "List Bullet" -> "bullet"
                [] OTHER -> "other",
     text |-> p.text]
\* the headings and bullets of the document last generated, in order
Emitted ==
    SelectSeq([i \in 1..Len(ev.result) |->
                   IF ev.fn = "generate_markdown" THEN MarkdownElement(ev.result[i])
                   ELSE DocxElement(ev.result[i])],
              LAMBDA e : e.kind # "other")
\* the sections of the lab that have a question, in lab.sections order
Answerable == SelectSeq(ev.arg.sections, LAMBDA section : Len(section.questions) > 0)
\* where the heading of the k-th of them stands among the headings and bullets
HeadingAt(k) == 2 + SumOf([j \in 1..(k - 1) |-> 1 + Len(Answerable[j].questions)])

\* C14: generate_markdown and generate_docx emit the lab title heading first,
\* then for every section of lab.sections with at least one question, in
\* order, one level-2 heading followed by one bullet per question in order,
\* and nothing for a section without questions; the bullets number
\* lab.total_questions.
C14_HeadingsAndBullets ==
    ev.fn \in {"generate_markdown", "generate_docx"} =>
        /\ Emitted[1] = [kind |-> "h1", text |-> ev.arg.number \o ": " \o ev.arg.title]
        /\ Len(Emitted) = HeadingAt(Len(Answerable) + 1) - 1
        /\ \A k \in 1..Len(Answerable) :
               /\ Emitted[HeadingAt(k)] =
                      [kind |-> "h2",
                       text |-> ToString(Answerable[k].number) \o ". " \o Answerable[k].title]
               /\ \A q \in 1..Len(Answerable[k].questions) :
                      Emitted[HeadingAt(k) + q] =
                          [kind |-> "bullet", text |-> Answerable[k].questions[q].text]
        /\ Len(SelectSeq(Emitted, LAMBDA e : e.kind = "h2")) = Len(Answerable)
        /\ Len(SelectSeq(Emitted, LAMBDA e : e.kind = "bullet")) = total_questions(ev.arg)

\* a markdown file of a lab whose middle section has no question
C14_Witness ==
    /\ ev.fn = "generate_markdown"
    /\ Len(ev.arg.sections) = 3
    /\ Len(ev.arg.sections[1].questions) = 2
    /\ Len(ev.arg.sections[2].questions) = 0
    /\ Len(ev.arg.sections[3].questions) = 1
    /\ Len(Emitted) = 6
    /\ Emitted[5].text = "3. Setup"

(***************************************************************************)
(* Properties of the scraped questions and of the section count           *)
(***************************************************************************)
\* the questions of the lab that scrape_lab_sections returned
ScrapedQuestions ==
    UNION {{ev.result.lab.sections[i].questions[j] :
                j \in 1..Len(ev.result.lab.sections[i].questions)} :
               i \in 1..Len(ev.result.lab.sections)}
Mentions(text, word) == Contains(str_lower(text), word)

\* C15: every Question of a scraped Lab has requires_screenshot True if its
\* text mentions "screenshot" and requires_odinid True if its text mentions
\* "OdinId", whatever the case of the letters: the flags Question.from_text
\* gives the text.
C15_FlagsFollowText ==
    ev.fn = "scrape_lab_sections" =>
        \A q \in ScrapedQuestions :
            /\ Mentions(q.text, "screenshot") => q.requires_screenshot
            /\ Mentions(q.text, "odinid") => q.requires_odinid
            /\ q.requires_screenshot = Question_from_text(q.text).requires_screenshot
            /\ q.requires_odinid = Question_from_text(q.text).requires_odinid

(***************************************************************************)
(* Properties of the serialisation                                         *)
(***************************************************************************)
\* when the value at hand was last stored in the cache, None if it was not
StoredAt ==
    IF ev.arg.cls = "Lab" THEN written_labs[ev.arg.lab_id] ELSE written_index

\* C16: Lab.from_dict(l.to_dict()) and Lab.from_json(l.to_json()) equal l,
\* LabIndex.from_dict(x.to_dict()) equals x and has x's last_updated, also
\* when it is read back later than x was built; a Lab or LabIndex read from
\* the cache before its entry expires equals the value that was stored.
C16_RoundTrips ==
    /\ ev.fn \in {"Lab.from_dict", "Lab.from_json", "LabIndex.from_dict"} =>
           ev.result = ev.arg
    /\ ev.fn = "LabIndex.from_dict" => ev.result.last_updated = ev.arg.last_updated
    /\ (/\ last_op.op \in {"get_lab", "get_lab_index"}
        /\ ~last_op.fault
        /\ StoredAt # None
        /\ now < StoredAt.at + ttl) => last_op.result = ev.arg

\* an index stamped when it was built, converted and read from the cache later
C16_Witness ==
    /\ ev.fn = "LabIndex.from_dict"
    /\ ev.arg.last_updated = "T0"
    /\ Len(ev.arg.labs) = 2
    /\ ev.result = ev.arg
    /\ now > 0
    /\ last_op.op = "get_lab_index"
    /\ last_op.result = ev.arg

\* the three sources of the section count in the page at hand: the
\* google-codelab-step elements, the step-class navigation elements (the li
\* elements, without any the a elements), and the hash links of the drawer
\* (without a drawer, of the nav)
CodelabStepCount == Len(ev.arg.steps)
NavStepCount == IF Len(ev.arg.li_steps) > 0 THEN Len(ev.arg.li_steps) ELSE Len(ev.arg.a_steps)
HashLinkCount ==
    IF ev.arg.drawer # None THEN ev.arg.drawer.v
    ELSE IF ev.arg.nav # None THEN ev.arg.nav.v
    ELSE 0
\* what C17 says get_section_count returns
ChainedCount ==
    IF CodelabStepCount > 0 THEN CodelabStepCount
    ELSE IF NavStepCount > 0 THEN NavStepCount
    ELSE IF HashLinkCount > 0 THEN HashLinkCount
    ELSE 0

\* C17: get_section_count returns the number of google-codelab-step elements
\* if there is any, else the number of step-class navigation elements if there
\* is any, else the number of hash links in the drawer or nav if there is any,
\* else 0; scrape_lab_sections goes through that many sections, or, when the
\* count is 0, as many as there are section titles, or, without titles, 10.
C17_SectionCountFallbacks ==
    /\ ev.fn = "get_section_count" =>
           /\ CodelabStepCount > 0 => ev.result = CodelabStepCount
           /\ (CodelabStepCount = 0 /\ NavStepCount > 0) => ev.result = NavStepCount
           /\ (CodelabStepCount = 0 /\ NavStepCount = 0 /\ HashLinkCount > 0) =>
                  ev.result = HashLinkCount
           /\ (CodelabStepCount = 0 /\ NavStepCount = 0 /\ HashLinkCount = 0) => ev.result = 0
    /\ ev.fn = "scrape_lab_sections" =>
           LET titles == parse_lab_page_html(ev.arg).section_titles
           IN  /\ ChainedCount > 0 => ev.result.num_sections = ChainedCount
               /\ (ChainedCount = 0 /\ Len(titles) > 0) => ev.result.num_sections = Len(titles)
               /\ (ChainedCount = 0 /\ Len(titles) = 0) => ev.result.num_sections = 10
               /\ Len(ev.result.lab.sections) <= ev.result.num_sections
               /\ \A i \in 1..Len(ev.result.lab.sections) :
                      ev.result.lab.sections[i].number \in 1..ev.result.num_sections

\* a page without steps of either kind whose drawer has hash links: they are
\* counted, the links of the nav are not
C17_Witness ==
    /\ ev.fn = "get_section_count"
    /\ CodelabStepCount = 0
    /\ NavStepCount = 0
    /\ ev.arg.drawer = Some(4)
    /\ ev.arg.nav = Some(5)
    /\ ev.result = 4

=============================================================================
